---- MODULE Spec2Model ----
(***************************************************************************)
(* Model of the Athena proxy backend (Express server, src/unnamed/part_000 *)
(* lines 1-318): the upload directory, the in-flight HTTP requests and the *)
(* upstream Python service seen through the axios calls the server makes;  *)
(* and of the React frontend (App, lines 321-437, and its components under *)
(* src/frontend-react/src/components): the state of App and of the mounted *)
(* view, and the asynchronous handlers that are awaiting a fetch.          *)
(*                                                                         *)
(* Every route handler is an async function: each `await` is a point where *)
(* other requests may run, so a handler is a small process (one record of  *)
(* `req` per in-flight request) and one action per step between awaits.    *)
(***************************************************************************)
EXTENDS Integers, Sequences, FiniteSets, TLC

VARIABLES
  fs,      \* file system: absolute path of a regular file -> identity of its content
  py,      \* upstream service's own registry of ingested files: set of [name, id]
  now,     \* Date.now(), in milliseconds
  nextId,  \* identity given to the next file content received
  req,     \* in-flight requests: slot -> handler state
  hist,    \* history: which file contents were listed / deleted / reported stored
  app,     \* state of App: activeView, uploads, loading, selectedFile
  view,    \* the rendered panels and the state of the mounted view component
  ops,     \* frontend handlers awaiting a fetch
  last     \* history: how the last frontend step ended, the latest listing reply

client == <<app, view, ops, last>>
vars == <<fs, py, now, nextId, req, hist, app, view, ops, last>>

----------------------------------------------------------------------------
(* Bounds *)

MaxTime  == 2    \* milliseconds the clock can show
MaxRand  == 1    \* values of Math.round(Math.random() * 1E9) that are drawn
MaxStore == 2    \* file contents received over a run, past the first request

\* Two requests are in flight at a time: a handler runs against one other
\* handler, of any route, at each of its awaits.
Slots == {1, 2}

----------------------------------------------------------------------------
(* JavaScript values *)

UNDEF == "<undefined>"

\* ToBoolean for the values a JSON body field takes here: undefined and the
\* empty string are falsy, every non-empty string is truthy.
Truthy(v) == v # UNDEF /\ v # ""

\* a || b
OrElse(a, b) == IF Truthy(a) THEN a ELSE b

----------------------------------------------------------------------------
(* Upstream replies to an axios call *)

\* Upstream answers 2xx with a body, answers with an error status and a
\* payload whose `detail` is absent, empty or a text, or sends no response at
\* all (connection refused, timeout).
UpStatuses == {404, 503}
Details    == {UNDEF, "", "upstream detail"}

UpOk(data)      == [type |-> "ok", status |-> 200, data |-> data]
UpErr(s, d)     == [type |-> "http", status |-> s, data |-> d]
UpDown(m)       == [type |-> "down", status |-> 0, data |-> m]
NoReplyMessages == {"connect ECONNREFUSED", "timeout exceeded"}

UpFailures == {UpErr(s, d) : s \in UpStatuses, d \in Details}
                \cup {UpDown(m) : m \in NoReplyMessages}

\* axios rejects with an error whose `message` names the status, or the
\* network failure when no response arrived.
AxiosMessage(reply) ==
  IF reply.type = "down" THEN reply.data
  ELSE IF reply.status = 404 THEN "Request failed with status code 404"
  ELSE "Request failed with status code 503"

\* error.response?.status
ErrStatus(reply) == IF reply.type = "http" THEN reply.status ELSE 0
\* error.response?.data?.detail
ErrDetail(reply) == IF reply.type = "http" THEN reply.data ELSE UNDEF

Idle == [kind |-> "idle", pc |-> "idle"]

\* A request is taken by the first handler slot that is not busy; the record
\* of the response sent before is dropped.
Free(r) == req[r].pc \in {"idle", "done"}
CanStart(r) == Free(r) /\ \A s \in Slots : s < r => ~Free(s)

\* The failures of the upstream calls whose handlers ignore the reason.
StoreFailures == {UpErr(503, UNDEF), UpDown("connect ECONNREFUSED")}

Response(status, body) == [status |-> status, body |-> body]
NoResponse == [status |-> 0, body |-> UNDEF]

----------------------------------------------------------------------------
(* File names and paths *)

\* A file name is its base name and its extension (the text from the last
\* dot on, as path.extname returns it).  Path separators and the characters
\* of a URL parameter are tokens of the same shape, so that names, paths and
\* parameters compare with each other.
Name(stem, ext) == [stem |-> stem, ext |-> ext]
Tok(s)  == Name(<<s>>, "")
Sep     == Tok("/")      \* a path separator
EncSep  == Tok("%2F")    \* an escaped separator still present in the parameter
Pct     == Tok("%")      \* a percent sign that starts no valid escape
DotDot  == Tok("..")

\* path.extname(name)
extname(name) == name.ext

\* f.endsWith('.pdf')
endsWithPdf(name) == name.ext = ".pdf"

\* decodeURIComponent(s): throws URIError on a malformed escape, and replaces
\* every escape by the character it stands for.
DecodeThrows(s) == \E i \in 1..Len(s) : s[i] = Pct
decodeURIComponent(s) == [i \in 1..Len(s) |-> IF s[i] = EncSep THEN Sep ELSE s[i]]

NotSep(t) == t # Sep
IsAbsolute(s) == Len(s) > 0 /\ s[1] = Sep
Segments(s) == SelectSeq(s, NotSep)

\* path.normalize on a list of segments of an absolute path: '..' removes
\* the segment before it and stays at the root.
RECURSIVE Normalize(_, _)
Normalize(done, rest) ==
  IF rest = <<>> THEN done
  ELSE IF Head(rest) = DotDot
       THEN Normalize(IF done = <<>> THEN <<>> ELSE SubSeq(done, 1, Len(done) - 1),
                      Tail(rest))
       ELSE Normalize(Append(done, Head(rest)), Tail(rest))

\* path.join(base, s): concatenates, then normalizes; an absolute s stays
\* below base.
PathJoin(base, s) == Normalize(<<>>, base \o Segments(s))

\* path.resolve(base, s): an absolute s replaces base.
PathResolve(base, s) ==
  IF IsAbsolute(s) THEN Normalize(<<>>, Segments(s))
  ELSE Normalize(<<>>, base \o Segments(s))

\* __dirname and UPLOADS_DIR = path.join(__dirname, '..', 'uploads')
Dirname     == <<Tok("app"), Tok("server")>>
UPLOADS_DIR == PathJoin(Dirname, <<DotDot, Sep, Tok("uploads")>>)

\* The server's own script, a file outside the upload directory.
ServerScript == Dirname \o <<Name(<<"index">>, ".js")>>

\* Directories; none is created or removed while the server runs.
Dirs == {<<>>, <<Tok("app")>>, Dirname, UPLOADS_DIR}

\* fs.access(p) resolves for every existing file or directory.
Exists(p) == p \in DOMAIN fs \/ p \in Dirs

\* fs.unlink(p) removes a regular file.
Unlinked(p) == [q \in DOMAIN fs \ {p} |-> fs[q]]

\* A write stream on p creates the file or replaces its content.
Written(p, id) == [q \in DOMAIN fs \cup {p} |-> IF q = p THEN id ELSE fs[q]]

\* fs.readdir(UPLOADS_DIR): the names of the entries directly inside.
InUploads(p) == Len(p) = Len(UPLOADS_DIR) + 1
                  /\ SubSeq(p, 1, Len(UPLOADS_DIR)) = UPLOADS_DIR
readdir == {p[Len(p)] : p \in {q \in DOMAIN fs : InUploads(q)}}

----------------------------------------------------------------------------
(* GET /api/health *)

HealthStart(r) ==
  /\ CanStart(r)
  /\ req' = [req EXCEPT ![r] = [kind |-> "health", pc |-> "ping",
                                calls |-> <<"GET /health">>,
                                reply |-> UpDown(UNDEF), res |-> NoResponse]]
  /\ UNCHANGED <<fs, py, now, nextId>>

HealthBodyMutant(reply) ==
  [status |-> "ok", python_api |-> "connected", error |-> UNDEF]

HealthBody(reply) ==
  IF reply.type = "ok"
  THEN [status |-> "ok", python_api |-> "connected", error |-> UNDEF]
  ELSE [status |-> "ok", python_api |-> "disconnected",
        error |-> AxiosMessage(reply)]

HealthReply(r) ==
  /\ req[r].kind = "health" /\ req[r].pc = "ping"
  /\ \E reply \in {UpOk("healthy")} \cup UpFailures :
       req' = [req EXCEPT ![r].pc = "done", ![r].reply = reply,
                          ![r].res = Response(200, HealthBody(reply))]
  /\ UNCHANGED <<fs, py, now, nextId>>

----------------------------------------------------------------------------
(* The upstream service behind /ingest, /uploads and DELETE /uploads/:name *)

\* The upstream service keeps its own record of the files it ingested (the
\* source of truth of the listing while it is reachable).  It is not part of
\* this code base; it is taken to behave as its mirrored endpoints promise:
\* an ingest call it serves adds the files it received, a delete call it
\* serves drops the file the name stands for, a listing shows what it holds.
UpstreamIngest(registry, files, sent) ==
  registry \cup {[name |-> files[i].originalname, id |-> sent[i]] :
                   i \in 1..Len(files)}

UpstreamDelete(registry, id) == {e \in registry : e.id # id}

UpstreamListing(registry) ==
  {[name |-> e.name, path |-> <<Tok("data"), e.name>>, id |-> e.id] :
     e \in registry}

\* What upstream reports for the files it ingested.
UpstreamReport(files) ==
  [i \in 1..Len(files) |->
     [file |-> files[i].originalname,
      path |-> <<Tok("data"), files[i].originalname>>,
      ingested_pages |-> "12"]]

----------------------------------------------------------------------------
(* DELETE /api/uploads/:filename *)

\* Values of req.params.filename: a name no file has, the server's own script
\* as an absolute path with an escaped separator, the parent directory, a name
\* with a stray percent sign, and the name of every file in the upload
\* directory.
MissingName == Name(<<"missing">>, ".pdf")
FixedParams ==
  { <<MissingName>>,
    <<Sep, Tok("app"), EncSep, Tok("server"), Sep, Name(<<"index">>, ".js")>>,
    <<DotDot>>,
    <<MissingName, Pct>> }
DeleteParams == FixedParams \cup {<<n>> : n \in readdir}

\* const possiblePaths = [...]
possiblePaths(filename) ==
  << PathJoin(UPLOADS_DIR, filename),
     PathJoin(PathJoin(Dirname, <<DotDot, Sep, Tok("uploads")>>), filename),
     PathResolve(UPLOADS_DIR, filename) >>

DeleteStart(r, params) ==
  /\ CanStart(r)
  /\ \E param \in params :
       req' = [req EXCEPT ![r] =
         IF DecodeThrows(param)
         THEN [kind |-> "delete", pc |-> "done", param |-> param,
               filename |-> <<>>, paths |-> <<>>, probes |-> <<>>,
               filePath |-> <<>>, unlinked |-> <<>>, calls |-> <<>>,
               reply |-> UpDown(UNDEF),
               res |-> Response(500, [error |-> "URI malformed"])]
         ELSE [kind |-> "delete", pc |-> "access", param |-> param,
               filename |-> decodeURIComponent(param),
               paths |-> possiblePaths(decodeURIComponent(param)),
               probes |-> <<>>,
               filePath |-> <<>>, unlinked |-> <<>>, calls |-> <<>>,
               reply |-> UpDown(UNDEF), res |-> NoResponse]]
  /\ UNCHANGED <<fs, py, now, nextId>>

\* if (!filePath) return res.status(404).json({ error: `File not found: ...
\* Checked paths: ...` })
NotFoundMutant(q) ==
  Response(500, [error |-> [message |-> "Failed to delete file",
                            filename |-> q.filename, checked |-> <<>>]])

NotFound(q) ==
  Response(404, [error |-> [message |-> "File not found",
                            filename |-> q.filename, checked |-> q.paths]])

\* res.json({ message: 'File deleted successfully', filename }), reached
\* whether the upstream delete call resolved or was caught.
DeletedMutant(q, reply) ==
  IF reply.type = "ok"
  THEN Response(200, [message |-> "File deleted successfully",
                      filename |-> q.filename])
  ELSE Response(500, [error |-> AxiosMessage(reply)])

Deleted(q, reply) ==
  Response(200, [message |-> "File deleted successfully",
                 filename |-> q.filename])

\* One turn of the loop over possiblePaths: await fs.access(testPath).
DeleteAccess(r) ==
  /\ req[r].kind = "delete" /\ req[r].pc = "access"
  /\ LET q == req[r]
         testPath == q.paths[Len(q.probes) + 1]
         found == Exists(testPath)
         probes == Append(q.probes, found)
     IN req' = [req EXCEPT ![r] =
          IF found
          THEN [q EXCEPT !.probes = probes, !.filePath = <<testPath>>,
                         !.pc = "unlink"]
          ELSE IF Len(probes) < Len(q.paths)
          THEN [q EXCEPT !.probes = probes]
          ELSE [q EXCEPT !.probes = probes, !.pc = "done",
                         !.res = NotFound(q)]]
  /\ UNCHANGED <<fs, py, now, nextId>>

\* await fs.unlink(filePath); on success the upstream delete is sent.
DeleteUnlink(r) ==
  /\ req[r].kind = "delete" /\ req[r].pc = "unlink"
  /\ LET q == req[r]
         filePath == q.filePath[1]
     IN IF filePath \in DOMAIN fs
        THEN /\ fs' = Unlinked(filePath)
             /\ req' = [req EXCEPT ![r].pc = "notify",
                   ![r].unlinked = <<[path |-> filePath, id |-> fs[filePath]]>>,
                   ![r].calls = <<[url |-> "DELETE /uploads",
                                   name |-> q.filename]>>]
        ELSE /\ fs' = fs
             /\ req' = [req EXCEPT ![r].pc = "done",
                   ![r].res = Response(500,
                     [error |-> IF filePath \in Dirs
                                THEN "Failed to delete file: EISDIR"
                                ELSE "Failed to delete file: ENOENT"])]
  /\ UNCHANGED <<py, now, nextId>>

\* The upstream delete call settles; its failure is ignored.
DeleteNotify(r) ==
  /\ req[r].kind = "delete" /\ req[r].pc = "notify"
  /\ LET q == req[r] IN
     \E reply \in {UpOk("deleted")} \cup StoreFailures :
       /\ py' = IF reply.type = "ok"
                THEN UpstreamDelete(py, q.unlinked[1].id)
                ELSE py
       /\ req' = [req EXCEPT ![r].pc = "done", ![r].reply = reply,
                    ![r].res = Deleted(q, reply)]
  /\ UNCHANGED <<fs, now, nextId>>

----------------------------------------------------------------------------
(* GET /api/uploads *)

ListStart(r) ==
  /\ CanStart(r)
  /\ req' = [req EXCEPT ![r] =
       [kind |-> "list", pc |-> "upstream", calls |-> <<"GET /uploads">>,
        reply |-> UpDown(UNDEF), data |-> <<>>, scanned |-> FALSE,
        dir |-> {}, pending |-> {}, files |-> {}, res |-> NoResponse]]
  /\ UNCHANGED <<fs, py, now, nextId>>

\* The upstream listing call settles: its body is returned as it is, or the
\* handler turns to the upload directory.
ListRelayMutant(data) == Response(200, [files |-> {}])

\* res.json(response.data)
ListRelay(data) == Response(200, data)

ListUpstream(r) ==
  /\ req[r].kind = "list" /\ req[r].pc = "upstream"
  /\ \/ LET data == [files |-> UpstreamListing(py)] IN
        req' = [req EXCEPT ![r].pc = "done", ![r].reply = UpOk("listing"),
                  ![r].data = <<data>>, ![r].res = ListRelay(data)]
     \/ \E reply \in StoreFailures :
          req' = [req EXCEPT ![r].pc = "readdir", ![r].reply = reply]
  /\ UNCHANGED <<fs, py, now, nextId>>

\* files.filter(f => f.endsWith('.pdf'))
PdfOnly(names) == {n \in names : endsWithPdf(n)}

\* await fs.readdir(UPLOADS_DIR); one fs.stat per '.pdf' entry is then started.
ListReaddir(r) ==
  /\ req[r].kind = "list" /\ req[r].pc = "readdir"
  /\ IF PdfOnly(readdir) = {}
     THEN /\ req' = [req EXCEPT ![r].pc = "done", ![r].dir = readdir,
                       ![r].scanned = TRUE,
                       ![r].res = Response(200, [files |-> {}])]
     ELSE /\ req' = [req EXCEPT ![r].pc = "stat", ![r].dir = readdir,
                       ![r].scanned = TRUE,
                       ![r].pending = PdfOnly(readdir)]
  /\ UNCHANGED <<fs, py, now, nextId>>

\* One fs.stat of the Promise.all settles.  A rejected stat rejects the
\* Promise.all and the inner catch answers 500.
ListStat(r) ==
  /\ req[r].kind = "list" /\ req[r].pc = "stat"
  /\ \E name \in req[r].pending :
       LET q == req[r]
           filePath == PathJoin(UPLOADS_DIR, <<name>>)
           files == q.files \cup {[name |-> name, path |-> filePath,
                                   id |-> fs[filePath]]}
       IN req' = [req EXCEPT ![r] =
            IF filePath \notin DOMAIN fs
            THEN [q EXCEPT !.pc = "done",
                   !.res = Response(500,
                     [error |-> "ENOENT: no such file or directory, stat"])]
            ELSE IF q.pending = {name}
            THEN [q EXCEPT !.pc = "done", !.pending = {}, !.files = files,
                           !.res = Response(200, [files |-> files])]
            ELSE [q EXCEPT !.pending = @ \ {name}, !.files = files]]
  /\ UNCHANGED <<fs, py, now, nextId>>

----------------------------------------------------------------------------
(* POST /api/ingest *)

\* upload.array('files', 10) and limits: { fileSize: 50 * 1024 * 1024 }
MaxCount      == 10
FileSizeLimit == 50 * 1024 * 1024

File(stem, ext, mimetype, size) ==
  [originalname |-> Name(<<stem>>, ext), mimetype |-> mimetype, size |-> size]

PdfA    == File("a", ".pdf", "application/pdf", FileSizeLimit)
PdfB    == File("b", ".PDF", "application/pdf", 1)
TextT   == File("t", ".txt", "text/plain", 1)
BigPdf  == File("big", ".pdf", "application/pdf", FileSizeLimit + 1)

\* The multipart requests clients send.
Uploads == { <<>>, <<PdfA>>, <<PdfA, PdfB>>, <<TextT>>, <<BigPdf>> }

\* The requests sent while two handlers run concurrently.
SmallUploads == { <<>>, <<PdfA>> }

\* Requests at the count limit and one past it, and requests whose second
\* part is refused after the first was stored.
Repeat(file, n) == [i \in 1..n |-> file]
ManyUploads == { Repeat(PdfA, MaxCount), Repeat(PdfA, MaxCount + 1),
                 <<PdfA, TextT>>, <<PdfB, BigPdf>> }

IngestStart(r, uploads) ==
  /\ CanStart(r)
  /\ \E files \in uploads :
       /\ nextId = 1 \/ nextId + Len(files) <= MaxStore + 1
       /\ req' = [req EXCEPT ![r] =
            [kind |-> "ingest", pc |-> "multer", input |-> files,
             files |-> <<>>, written |-> {}, failure |-> UNDEF,
             sent |-> <<>>, calls |-> <<>>, reply |-> UpDown(UNDEF),
             res |-> NoResponse]]
  /\ UNCHANGED <<fs, py, now, nextId>>

\* fileFilter: mimetype === 'application/pdf'
fileFilterMutant(file) == TRUE

fileFilter(file) == file.mimetype = "application/pdf"

\* storage.filename: Date.now() + '-' + Math.round(Math.random() * 1E9) + extname
filename(t, rnd, file) == Name(<<t, rnd>>, extname(file.originalname))

\* multer takes the next file part of the request: it refuses a part beyond
\* the count limit or of another type, otherwise streams it to the upload
\* directory under a generated name and refuses it when it grows past the
\* size limit.
MulterFile(r) ==
  /\ req[r].kind = "ingest" /\ req[r].pc = "multer"
  /\ Len(req[r].files) < Len(req[r].input)
  /\ LET q == req[r]
         file == q.input[Len(q.files) + 1]
     IN IF Len(q.files) >= MaxCount
        THEN /\ req' = [req EXCEPT ![r].pc = "abort",
                          ![r].failure = "LIMIT_UNEXPECTED_FILE"]
             /\ UNCHANGED <<fs, nextId>>
        ELSE IF ~fileFilter(file)
        THEN /\ req' = [req EXCEPT ![r].pc = "abort",
                          ![r].failure = "Only PDF files are allowed"]
             /\ UNCHANGED <<fs, nextId>>
        ELSE \E rnd \in 0..(MaxRand - 1) :
               LET path == PathJoin(UPLOADS_DIR, <<filename(now, rnd, file)>>)
               IN /\ fs' = Written(path, nextId)
                  /\ nextId' = nextId + 1
                  /\ req' = [req EXCEPT ![r] =
                       IF file.size > FileSizeLimit
                       THEN [q EXCEPT !.pc = "abort",
                                      !.written = @ \cup {path},
                                      !.failure = "LIMIT_FILE_SIZE"]
                       ELSE [q EXCEPT !.written = @ \cup {path},
                                      !.files = Append(@,
                                        [originalname |-> file.originalname,
                                         path |-> path, id |-> nextId])]]
  /\ UNCHANGED <<py, now>>

\* multer removes the files of a refused request and passes the error on;
\* no handler of the application takes it, Express answers 500.
MulterAbort(r) ==
  /\ req[r].kind = "ingest" /\ req[r].pc = "abort"
  /\ fs' = [p \in DOMAIN fs \ req[r].written |-> fs[p]]
  /\ req' = [req EXCEPT ![r].pc = "done",
               ![r].res = Response(500, [html |-> req[r].failure])]
  /\ UNCHANGED <<py, now, nextId>>

\* What a read stream on a stored file delivers: the content now at that
\* path, or nothing (-1) when the file is gone.
StreamOf(path) == IF path \in DOMAIN fs THEN fs[path] ELSE -1

\* The route handler runs once multer has taken every part: it answers 400
\* when req.files is empty, otherwise opens a read stream per file and posts
\* the form upstream.
IngestHandler(r) ==
  /\ req[r].kind = "ingest" /\ req[r].pc = "multer"
  /\ Len(req[r].files) = Len(req[r].input)
  /\ LET q == req[r] IN
     req' = [req EXCEPT ![r] =
       IF Len(q.files) = 0
       THEN [q EXCEPT !.pc = "done",
                      !.res = Response(400, [error |-> "No files uploaded"])]
       ELSE [q EXCEPT !.pc = "post",
                      !.sent = [i \in 1..Len(q.files) |-> StreamOf(q.files[i].path)],
                      !.calls = <<[url |-> "POST /ingest",
                                   files |-> [i \in 1..Len(q.files) |->
                                               q.files[i].originalname]]>>]]
  /\ UNCHANGED <<fs, py, now, nextId>>

\* ingested: req.files.map(f => ({file, path, ingested_pages: 'unknown'}))
LocalReportMutant(files) ==
  [i \in 1..Len(files) |->
     [file |-> files[Len(files) + 1 - i].originalname,
      path |-> files[Len(files) + 1 - i].path,
      ingested_pages |-> "unknown"]]

LocalReport(files) ==
  [i \in 1..Len(files) |->
     [file |-> files[i].originalname, path |-> files[i].path,
      ingested_pages |-> "unknown"]]

\* The upstream ingest call settles; a stream that could not be opened fails
\* the call.  Either way the handler answers success.
IngestReply(r) ==
  /\ req[r].kind = "ingest" /\ req[r].pc = "post"
  /\ LET q == req[r]
         streamsOk == \A i \in 1..Len(q.sent) : q.sent[i] # -1
         failures == IF streamsOk THEN StoreFailures
                     ELSE {UpDown("ENOENT: no such file or directory, open")}
     IN \/ /\ streamsOk
           /\ py' = UpstreamIngest(py, q.files, q.sent)
           /\ req' = [req EXCEPT ![r].pc = "done", ![r].reply = UpOk("report"),
                ![r].res = Response(200, [ingested |-> UpstreamReport(q.files)])]
        \/ \E reply \in failures :
           /\ py' = py
           /\ req' = [req EXCEPT ![r].pc = "done", ![r].reply = reply,
                ![r].res = Response(200, [ingested |-> LocalReport(q.files)])]
  /\ UNCHANGED <<fs, now, nextId>>

----------------------------------------------------------------------------
(* Passthrough endpoints *)

Endpoints == {"/document/ask", "/synthesis", "/layman", "/related-papers",
              "/semantic-scholar/search"}

FieldValues == {UNDEF, "", "text"}
\* limit is a number; 0 stands for a missing or zero limit (both falsy)
LimitValues == {0, 5}

\* The request bodies sent to an endpoint vary in the fields its handler reads
\* (const { path, question } = req.body, ...); the others stay undefined.
Bodies(ep) ==
  [path     : IF ep \in {"/document/ask", "/layman", "/related-papers"}
              THEN FieldValues ELSE {UNDEF},
   question : IF ep = "/document/ask" THEN FieldValues ELSE {UNDEF},
   query    : IF ep \in {"/synthesis", "/semantic-scholar/search"}
              THEN FieldValues ELSE {UNDEF},
   limit    : IF ep \in {"/related-papers", "/semantic-scholar/search"}
              THEN LimitValues ELSE {0}]

\* The required-field test of each handler: TRUE when the request is refused.
MissingFieldMutant(ep, body) ==
  CASE ep = "/document/ask" -> ~Truthy(body.path) /\ ~Truthy(body.question)
    [] ep = "/synthesis" -> ~Truthy(body.query)
    [] ep = "/layman" -> ~Truthy(body.path)
    [] ep = "/related-papers" -> ~Truthy(body.path)
    [] OTHER -> ~Truthy(body.query)

MissingField(ep, body) ==
  CASE ep = "/document/ask" -> ~Truthy(body.path) \/ ~Truthy(body.question)
    [] ep = "/synthesis" -> ~Truthy(body.query)
    [] ep = "/layman" -> ~Truthy(body.path)
    [] ep = "/related-papers" -> ~Truthy(body.path)
    [] OTHER -> ~Truthy(body.query)

MissingMessage(ep) ==
  CASE ep = "/document/ask" -> "Document path and question are required"
    [] ep = "/synthesis" -> "Query is required"
    [] ep = "/layman" -> "Document path is required"
    [] ep = "/related-papers" -> "Document path is required"
    [] OTHER -> "Search query is required"

\* limit || 10
DefaultLimit == 10
LimitOr(limit) == IF limit = 0 THEN DefaultLimit ELSE limit

\* The JSON body each handler posts upstream (fields it does not send are UNDEF/0).
ForwardBody(ep, body) ==
  CASE ep = "/document/ask" ->
         [path |-> body.path, question |-> body.question, query |-> UNDEF, limit |-> 0]
    [] ep = "/synthesis" ->
         [path |-> UNDEF, question |-> UNDEF, query |-> body.query, limit |-> 0]
    [] ep = "/layman" ->
         [path |-> body.path, question |-> UNDEF, query |-> UNDEF, limit |-> 0]
    [] ep = "/related-papers" ->
         [path |-> body.path, question |-> UNDEF, query |-> UNDEF,
          limit |-> LimitOr(body.limit)]
    [] OTHER ->
         [path |-> UNDEF, question |-> UNDEF, query |-> body.query,
          limit |-> LimitOr(body.limit)]

\* The upstream calls of a handler whose fields are present: one axios.post
\* to the path the route mirrors.
PassCallsMutant(ep, body) ==
  << [url |-> ep, body |-> ForwardBody(ep, body)],
     [url |-> ep, body |-> ForwardBody(ep, body)] >>

PassCalls(ep, body) == << [url |-> ep, body |-> ForwardBody(ep, body)] >>

PassStart(r) ==
  /\ CanStart(r)
  /\ \E ep \in Endpoints : \E body \in Bodies(ep) :
       req' = [req EXCEPT ![r] =
         IF MissingField(ep, body)
         THEN [kind |-> "pass", pc |-> "done", ep |-> ep, body |-> body,
               calls |-> <<>>, reply |-> UpDown(UNDEF),
               res |-> Response(400, [error |-> MissingMessage(ep)])]
         ELSE [kind |-> "pass", pc |-> "call", ep |-> ep, body |-> body,
               calls |-> PassCalls(ep, body),
               reply |-> UpDown(UNDEF), res |-> NoResponse]]
  /\ UNCHANGED <<fs, py, now, nextId>>

\* res.status(error.response?.status || 500).json({error: detail || message})
PassErrorMutant(reply) ==
  Response(500, [error |-> OrElse(ErrDetail(reply), AxiosMessage(reply))])

PassError(reply) ==
  Response(IF ErrStatus(reply) # 0 THEN ErrStatus(reply) ELSE 500,
           [error |-> OrElse(ErrDetail(reply), AxiosMessage(reply))])

PassReply(r) ==
  /\ req[r].kind = "pass" /\ req[r].pc = "call"
  /\ \E reply \in {UpOk("upstream body")} \cup UpFailures :
       req' = [req EXCEPT ![r].pc = "done", ![r].reply = reply,
                          ![r].res = IF reply.type = "ok"
                                     THEN Response(200, reply.data)
                                     ELSE PassError(reply)]
  /\ UNCHANGED <<fs, py, now, nextId>>

----------------------------------------------------------------------------
(* React frontend: App *)

NULL == "<null>"

\* Two documents, as the records of a listing ({name, path, size, updated}).
D1 == [name |-> "1-0.pdf", path |-> "uploads/1-0.pdf"]
D2 == [name |-> "2-0.pdf", path |-> "uploads/2-0.pdf"]

Range(seq) == {seq[i] : i \in 1..Len(seq)}

\* Sidebar: menuItems, the ids onViewChange is called with.
menuItems == <<"library", "qa", "synthesis", "related">>

\* renderActiveView: the panels rendered for a value of activeView.
renderActiveViewMutant(activeView) ==
  CASE activeView = "qa" -> <<"LibraryView", "DocumentQA">>
    [] activeView = "synthesis" -> <<"SynthesisView">>
    [] activeView = "related" -> <<"RelatedPapers">>
    [] OTHER -> <<"LibraryView">>

renderActiveView(activeView) ==
  CASE activeView = "library" -> <<"LibraryView">>
    [] activeView = "qa" -> <<"DocumentQA">>
    [] activeView = "synthesis" -> <<"SynthesisView">>
    [] activeView = "related" -> <<"RelatedPapers">>
    [] OTHER -> <<"LibraryView">>

\* The useState initial values of a view component (question/answer,
\* query/result, searchQuery/results/relatedPapers, loading, error).
Mounted(activeView) ==
  [panels |-> renderActiveView(activeView), loading |-> FALSE,
   error |-> NULL, result |-> NULL, results |-> NULL]

\* What the server answers to GET /api/uploads, as fetchUploads sees it: a
\* JSON body with files, a JSON body without (an error answer), or no JSON
\* at all (fetch rejects, or response.json() does).
Listings == {<<>>, <<D1>>, <<D1, D2>>}
ListingReplies ==
  {[type |-> "files", files |-> l] : l \in Listings}
    \cup {[type |-> "error", files |-> <<>>], [type |-> "reject", files |-> <<>>]}

\* The handlers of App that call fetchUploads: the mount effect,
\* handleFileUpload and handleFileDelete.
Fetchers == {"mount", "upload", "delete"}
Fetching == {o \in Fetchers : ops[o].pc = "fetch"}

\* How a step ended, for the history.
Ended(op, type) == [last EXCEPT !.op = op, !.type = type]
Issued(o)       == [last EXCEPT !.op = o, !.type = "issued", !.issuer = o,
                                !.listing = <<>>]

\* fetchUploads after its awaits: setUploads(data.files || []), or the catch
\* (console.error) when there was no JSON.
fetchUploads(reply, uploads) ==
  IF reply.type = "reject" THEN uploads
  ELSE IF reply.type = "files" THEN reply.files ELSE <<>>

\* The listing request of handler o settles; handleFileUpload then goes on
\* to setSelectedFile(data.ingested[0].path) and setLoading(false).
FetchReply(o) ==
  /\ o \in Fetching
  /\ \E reply \in ListingReplies :
       /\ app' = [app EXCEPT
            !.uploads = fetchUploads(reply, @),
            !.selectedFile = IF o = "upload" /\ Len(ops[o].ingested) > 0
                             THEN ops[o].ingested[1].path ELSE @,
            !.loading = IF o = "upload" THEN FALSE ELSE @]
       /\ last' = [last EXCEPT !.op = "listing",
            !.type = IF reply.type = "files" THEN "ok" ELSE "failed",
            !.listing = IF o = last.issuer THEN <<reply>> ELSE @]
  /\ ops' = [ops EXCEPT ![o].pc = "idle"]
  /\ UNCHANGED view

\* Sidebar nav item: onViewChange(item.id) = setActiveView; the panel of the
\* old view is unmounted, and a request it is awaiting finds no component.
ViewChange(v) ==
  /\ v # app.activeView
  /\ app' = [app EXCEPT !.activeView = v]
  /\ view' = Mounted(v)
  /\ ops' = [ops EXCEPT !.comp =
       [s \in DOMAIN ops.comp |-> [ops.comp[s] EXCEPT !.mounted = FALSE]]]
  /\ last' = Ended("view", "ok")

\* LibraryView card: onClick={() => onFileSelect(file.path)}
FileSelect(file) ==
  /\ "LibraryView" \in Range(view.panels)
  /\ file \in Range(app.uploads)
  /\ app.selectedFile # file.path
  /\ app' = [app EXCEPT !.selectedFile = file.path]
  /\ last' = Ended("select", "ok")
  /\ UNCHANGED <<view, ops>>

\* What the server answers to a DELETE, as handleDelete sees it: response.ok,
\* an error status, or a rejected fetch.
DeleteReplies == {"ok", "error", "reject"}

\* LibraryView delete button, confirmed: handleDelete awaits the DELETE.  The
\* handler is the one of the render the click happened in: its onFileDelete
\* is the handleFileDelete of that render of App, which reads the
\* selectedFile of that render.
handleDelete(file) ==
  /\ "LibraryView" \in Range(view.panels)
  /\ file \in Range(app.uploads)
  /\ ops.delete.pc = "idle"
  /\ ops' = [ops EXCEPT !.delete =
       [pc |-> "delete", file |-> <<file>>, selectedFile |-> app.selectedFile]]
  /\ last' = Ended("delete", "issued")
  /\ UNCHANGED <<app, view>>

\* handleFileDelete before its await: the file is filtered out of uploads,
\* and the selection is cleared when the selectedFile this handler was
\* created with is the file's path.
handleFileDelete(state, closure, deletedFile) ==
  [state EXCEPT
     !.uploads = SelectSeq(@, LAMBDA f : f.path # deletedFile.path),
     !.selectedFile = IF closure.selectedFile = deletedFile.path THEN NULL ELSE @]

\* The DELETE settles: on response.ok onFileDelete(file) runs and awaits
\* fetchUploads; otherwise the catch shows an alert dialog.
DeleteReply ==
  /\ ops.delete.pc = "delete"
  /\ \E reply \in DeleteReplies :
       IF reply = "ok"
       THEN /\ app' = handleFileDelete(app, ops.delete, ops.delete.file[1])
            /\ ops' = [ops EXCEPT !.delete.pc = "fetch"]
            /\ last' = Issued("delete")
       ELSE /\ app' = app
            /\ ops' = [ops EXCEPT !.delete.pc = "idle"]
            /\ last' = Ended("delete", "failed")
  /\ UNCHANGED view

\* The files picked in the Sidebar's file input.
Picked == {<<D1>>, <<D2>>}

\* What the server answers to POST /api/ingest, as handleFileUpload sees it:
\* a JSON body with ingested (the picked files, or none), a JSON body
\* without (an error answer), or no JSON at all.
IngestReplies(files) ==
  {[type |-> "ingested", ingested |-> l] : l \in {<<>>, files}}
    \cup {[type |-> "error", ingested |-> <<>>],
          [type |-> "reject", ingested |-> <<>>]}

\* Sidebar upload button (disabled while loading): handleFileUpload sets
\* loading and awaits the POST.  The list of uploads is left as it is.
handleFileUpload(state, files) == [state EXCEPT !.loading = TRUE]

UploadStart ==
  /\ ~app.loading
  /\ \E files \in Picked :
       /\ app' = handleFileUpload(app, files)
       /\ ops' = [ops EXCEPT !.upload =
            [pc |-> "post", files |-> files, ingested |-> <<>>]]
  /\ last' = Ended("upload", "issued")
  /\ UNCHANGED view

\* The POST settles: with data.ingested the handler awaits fetchUploads;
\* without, it does nothing more; with no JSON the catch shows an alert
\* dialog.  finally: setLoading(false).
UploadReply ==
  /\ ops.upload.pc = "post"
  /\ \E reply \in IngestReplies(ops.upload.files) :
       IF reply.type = "ingested"
       THEN /\ app' = app
            /\ ops' = [ops EXCEPT !.upload.pc = "fetch",
                                  !.upload.ingested = reply.ingested]
            /\ last' = Issued("upload")
       ELSE /\ app' = [app EXCEPT !.loading = FALSE]
            /\ ops' = [ops EXCEPT !.upload.pc = "idle"]
            /\ last' = Ended("upload", "failed")
  /\ UNCHANGED view

----------------------------------------------------------------------------
(* React frontend: DocumentQA, SynthesisView, RelatedPapers *)

\* The requests of the view components and the panel each belongs to.
Requests == {"ask", "synthesis", "related", "search"}
PanelOf(kind) ==
  CASE kind = "ask" -> "DocumentQA"
    [] kind = "synthesis" -> "SynthesisView"
    [] OTHER -> "RelatedPapers"

\* Two requests of view components are awaited at a time.
Awaits == {1, 2}
NoAwait == [pc |-> "idle", kind |-> NULL, mounted |-> FALSE]
CanAwait(s) ==
  /\ ops.comp[s].pc = "idle"
  /\ \A t \in Awaits : t < s => ops.comp[t].pc # "idle"

\* DocumentQA: fileToUse = selectedFile || (uploads[0].path or null)
fileToUse ==
  IF app.selectedFile # NULL THEN app.selectedFile
  ELSE IF Len(app.uploads) > 0 THEN app.uploads[1].path ELSE NULL

\* The submit control of the mounted panel is enabled (not loading; the text
\* typed is not empty) and the handler does not return early.
CanSubmit(kind) ==
  /\ PanelOf(kind) \in Range(view.panels)
  /\ ~view.loading
  /\ kind = "ask" => fileToUse # NULL
  /\ kind = "related" => app.selectedFile # NULL

\* handleSubmit / handleRelatedPapers / handleSearch before the await:
\* setLoading(true), setError(null) and one result cleared.
Submitted(kind) ==
  [view EXCEPT !.loading = TRUE, !.error = NULL,
               !.result = IF kind = "search" THEN NULL
                          ELSE IF kind = "related" THEN @ ELSE NULL,
               !.results = IF kind = "related" THEN NULL ELSE @]

handleSubmit(s, kind) ==
  /\ CanAwait(s)
  /\ CanSubmit(kind)
  /\ view' = Submitted(kind)
  /\ ops' = [ops EXCEPT !.comp[s] =
       [pc |-> "fetch", kind |-> kind, mounted |-> TRUE]]
  /\ last' = Ended(kind, "issued")
  /\ UNCHANGED app

\* What the server answers to a view's POST: response.ok with JSON, an error
\* status with a JSON error, or a rejected fetch.
PostReplies == {"ok", "error", "reject"}

\* The text passed to setError in the catch of each handler.
ErrorText(kind, reply) ==
  IF kind = "ask"
  THEN IF reply = "error" THEN "Failed to get answer" ELSE "Failed to fetch"
  ELSE IF reply = "error" THEN "server error"
       ELSE "Network error: Could not connect to server."

\* The state of the component once the handler has run to its end.
Settled(kind, reply) ==
  IF reply = "ok"
  THEN [view EXCEPT !.loading = FALSE,
          !.result = IF kind = "search" THEN @ ELSE "data",
          !.results = IF kind = "search" THEN "results" ELSE @]
  ELSE [view EXCEPT !.loading = FALSE, !.error = ErrorText(kind, reply)]

\* The POST of a view settles; the state setters of a component that was
\* unmounted meanwhile change nothing.
SubmitReply(s) ==
  /\ ops.comp[s].pc = "fetch"
  /\ \E reply \in PostReplies :
       /\ view' = IF ops.comp[s].mounted
                  THEN Settled(ops.comp[s].kind, reply) ELSE view
       /\ last' = Ended(ops.comp[s].kind,
                        IF reply = "ok" THEN "ok" ELSE "failed")
  /\ ops' = [ops EXCEPT !.comp[s] = NoAwait]
  /\ UNCHANGED app

\* RelatedPapers.handleRelatedPapers without a selected file
RelatedNoFile ==
  /\ "RelatedPapers" \in Range(view.panels)
  /\ ~view.loading
  /\ app.selectedFile = NULL
  /\ view.error # "Please select a document first"
  /\ view' = [view EXCEPT !.error = "Please select a document first"]
  /\ last' = Ended("related", "refused")
  /\ UNCHANGED <<app, ops>>

\* The error banner a component renders ({error && <div className=
\* "error-message">}); App and LibraryView render no error element.
Banner(component) ==
  IF component \in Range(view.panels)
       /\ component \in {"DocumentQA", "SynthesisView", "RelatedPapers"}
  THEN view.error ELSE NULL

----------------------------------------------------------------------------

\* The server has started and holds no upload; the frontend has rendered
\* once and its mount effect awaits the first listing.
Init ==
  /\ fs = [p \in {ServerScript} |-> 0]
  /\ py = {}
  /\ now = 1
  /\ nextId = 1
  /\ req = [r \in Slots |-> Idle]
  /\ hist = [listed |-> {}, deleted |-> {}, stored |-> {}]
  /\ app = [activeView |-> "library", uploads |-> <<>>, loading |-> FALSE,
            selectedFile |-> NULL]
  /\ view = Mounted("library")
  /\ ops = [mount  |-> [pc |-> "fetch"],
            upload |-> [pc |-> "idle", files |-> <<>>, ingested |-> <<>>],
            delete |-> [pc |-> "idle", file |-> <<>>, selectedFile |-> NULL],
            comp   |-> [s \in Awaits |-> NoAwait]]
  /\ last = [op |-> "mount", type |-> "issued", issuer |-> "mount",
             listing |-> <<>>]

\* Time passes.
Tick ==
  /\ now < MaxTime
  /\ now' = now + 1
  /\ UNCHANGED <<fs, py, nextId, req>>

\* History of the answers sent: the file contents a listing has shown, those
\* an ingest answer reported, and those a delete answered for after a listing
\* had shown them.
Answered(r) == req[r].pc \notin {"idle", "done"} /\ req'[r].pc = "done"
                 /\ req'[r].res.status = 200
AnsweredIds(kind) ==
  UNION { CASE kind = "list" -> {e.id : e \in req'[r].res.body.files}
            [] kind = "ingest" ->
                 {req'[r].files[i].id : i \in 1..Len(req'[r].files)}
            [] OTHER -> {req'[r].unlinked[1].id}
          : r \in {s \in Slots : Answered(s) /\ req'[s].kind = kind} }
Record ==
  hist' = [listed  |-> (hist.listed \cup AnsweredIds("list")) \ AnsweredIds("delete"),
           stored  |-> (hist.stored \cup AnsweredIds("ingest")) \ AnsweredIds("delete"),
           deleted |-> hist.deleted \cup (AnsweredIds("delete") \cap hist.listed)]

\* The upload store under two concurrent requests.
Next ==
  /\ \/ Tick
     \/ \E r \in Slots :
          \/ DeleteStart(r, DeleteParams)
          \/ DeleteAccess(r)
          \/ DeleteUnlink(r)
          \/ DeleteNotify(r)
          \/ ListStart(r)
          \/ ListUpstream(r)
          \/ ListReaddir(r)
          \/ ListStat(r)
          \/ IngestStart(r, SmallUploads)
          \/ MulterFile(r)
          \/ IngestHandler(r)
          \/ IngestReply(r)
  /\ UNCHANGED <<hist, client>>

Spec == Init /\ [][Next]_vars

\* The upload store under one request at a time, with the history of answers.
NextSeq ==
  /\ \/ Tick
     \/ \E r \in {1} :
          \/ DeleteStart(r, DeleteParams)
          \/ DeleteAccess(r)
          \/ DeleteUnlink(r)
          \/ DeleteNotify(r)
          \/ ListStart(r)
          \/ ListUpstream(r)
          \/ ListReaddir(r)
          \/ ListStat(r)
          \/ IngestStart(r, Uploads)
          \/ MulterFile(r)
          \/ MulterAbort(r)
          \/ IngestHandler(r)
          \/ IngestReply(r)
  /\ Record
  /\ UNCHANGED client

SpecSeq == Init /\ [][NextSeq]_vars

\* Ingest requests of every size, one at a time.
NextLimit ==
  /\ \/ Tick
     \/ \E r \in {1} :
          \/ IngestStart(r, Uploads \cup ManyUploads)
          \/ MulterFile(r)
          \/ MulterAbort(r)
          \/ IngestHandler(r)
          \/ IngestReply(r)
  /\ UNCHANGED <<hist, client>>

SpecLimit == Init /\ [][NextLimit]_vars

NextRelay ==
  /\ \E r \in Slots :
       \/ HealthStart(r)
       \/ HealthReply(r)
       \/ PassStart(r)
       \/ PassReply(r)
  /\ UNCHANGED <<hist, client>>

SpecRelay == Init /\ [][NextRelay]_vars

server == <<fs, py, now, nextId, req, hist>>

\* The frontend's App: listings, uploads, deletes, selections and views.
NextApp ==
  /\ \/ \E o \in Fetchers : FetchReply(o)
     \/ \E v \in Range(menuItems) : ViewChange(v)
     \/ \E file \in {D1, D2} : FileSelect(file)
     \/ \E file \in {D1, D2} : handleDelete(file)
     \/ DeleteReply
     \/ UploadStart
     \/ UploadReply
  /\ UNCHANGED server

SpecApp == Init /\ [][NextApp]_vars

\* The frontend's requests: those of the mounted panel and App's upload.
NextViews ==
  /\ \/ \E o \in {"mount", "upload"} : FetchReply(o)
     \/ UploadStart
     \/ UploadReply
     \/ \E v \in Range(menuItems) : ViewChange(v)
     \/ \E file \in {D1, D2} : FileSelect(file)
     \/ \E s \in Awaits : \E kind \in Requests : handleSubmit(s, kind)
     \/ \E s \in Awaits : SubmitReply(s)
     \/ RelatedNoFile
  /\ UNCHANGED server

SpecViews == Init /\ [][NextViews]_vars

----------------------------------------------------------------------------
(* Claims about the relay endpoints, checked under SpecRelay *)

\* The fields each passthrough handler requires.
RequiredFields(ep) ==
  CASE ep = "/document/ask" -> {"path", "question"}
    [] ep = "/synthesis" -> {"query"}
    [] ep = "/layman" -> {"path"}
    [] ep = "/related-papers" -> {"path"}
    [] OTHER -> {"query"}

OmitsRequired(q) ==
  \E f \in RequiredFields(q.ep) : q.body[f] = UNDEF \/ q.body[f] = ""

\* C4: on each passthrough endpoint a request that omits or leaves empty a
\* required field is answered 400 with an error message, and nothing is
\* forwarded upstream.
C4_MissingFieldIs400 ==
  \A r \in Slots :
    (req[r].kind = "pass" /\ OmitsRequired(req[r])) =>
      /\ req[r].pc = "done"
      /\ req[r].res.status = 400
      /\ Truthy(req[r].res.body.error)
      /\ req[r].calls = <<>>

\* A question request with a path and an empty question has been refused.
C4_Witness ==
  \E r \in Slots :
    /\ req[r].kind = "pass" /\ req[r].ep = "/document/ask"
    /\ req[r].body.path = "text" /\ req[r].body.question = ""
    /\ req[r].res.status = 400

\* C5: the health check always answers success with status 'ok'; python_api
\* is 'connected' exactly when the upstream ping succeeded and 'disconnected'
\* otherwise.
C5_HealthNeverFails ==
  \A r \in Slots :
    (req[r].kind = "health" /\ req[r].pc = "done") =>
      /\ req[r].res.status = 200
      /\ req[r].res.body.status = "ok"
      /\ req[r].res.body.python_api = "connected" <=> req[r].reply.type = "ok"
      /\ req[r].res.body.python_api = "disconnected" <=> req[r].reply.type # "ok"

\* A health check whose ping was answered with an error status has completed.
C5_Witness ==
  \E r \in Slots :
    /\ req[r].kind = "health" /\ req[r].pc = "done"
    /\ req[r].reply.type = "http"
    /\ req[r].res.body.python_api = "disconnected"

FailedPass(q) ==
  q.kind = "pass" /\ q.pc = "done" /\ q.calls # <<>> /\ q.reply.type # "ok"

----------------------------------------------------------------------------
(* Claims about the upload store *)

ListedIds(q) == {e.id : e \in q.res.body.files}
ListAnswered(q) == q.kind = "list" /\ q.pc = "done" /\ q.res.status = 200

\* C1 as stated: once a delete has answered success for a file that a
\* listing had shown, no later listing shows that file, whatever upstream's
\* availability was at the delete and is at the listing.  (Checked under
\* SpecSeq, where hist.deleted holds the deletes answered before the listing
\* was requested.)
C1_DeletedStaysUnlisted ==
  \A r \in Slots :
    ListAnswered(req[r]) => ListedIds(req[r]) \cap hist.deleted = {}

\* The file contents now in the upload directory.
InStore == {fs[p] : p \in {q \in DOMAIN fs : InUploads(q)}}

\* C2 as stated, for the listings the local fallback serves: after an
\* ingest request answered success for a valid file, the next listing has a
\* record for that stored file (the claim covers the listing 'served by
\* upstream or by the local fallback').
C2_StoredIsListed ==
  \A r \in Slots :
    (ListAnswered(req[r]) /\ req[r].reply.type # "ok") =>
      (hist.stored \cap InStore) \subseteq ListedIds(req[r])

\* C3 as stated: whenever the upstream listing call fails, the listing is
\* answered with success and exactly one record per '.pdf' entry of the
\* upload directory, never with an error, under every interleaving with
\* other requests.
C3_FallbackNeverFails ==
  \A r \in Slots :
    (req[r].kind = "list" /\ req[r].pc = "done" /\ req[r].reply.type # "ok") =>
      /\ req[r].res.status = 200
      /\ {e.name : e \in req[r].res.body.files}
           = {n \in req[r].dir : n.ext = ".pdf"}
      /\ Cardinality(req[r].res.body.files)
           = Cardinality({n \in req[r].dir : n.ext = ".pdf"})

NoneExists(q) ==
  q.kind = "delete" /\ Len(q.probes) = 3 /\ \A i \in 1..3 : ~q.probes[i]

\* C6: a delete naming a file found at none of the candidate paths is
\* answered 404 with an error that lists the checked paths; it removes no
\* file and does not notify upstream.
C6_NotFoundIs404 ==
  \A r \in Slots :
    NoneExists(req[r]) =>
      /\ req[r].pc = "done"
      /\ req[r].res.status = 404
      /\ req[r].res.body.error.checked = req[r].paths
      /\ Len(req[r].res.body.error.checked) = 3
      /\ req[r].unlinked = <<>>
      /\ req[r].calls = <<>>

\* A delete of a missing name has been answered while the other handler had
\* a file stored.
C6_Witness ==
  \E r \in Slots :
    /\ NoneExists(req[r]) /\ req[r].res.status = 404
    /\ req[r].filename = <<MissingName>>
    /\ readdir # {}

\* C7: the first existing candidate path is the one unlinked; the upstream
\* delete is attempted only after the unlink succeeded, never after a failed
\* unlink, which is answered 500; once the unlink succeeded the answer is
\* success whatever the upstream delete call did.
C7_DeleteOrder ==
  \A r \in Slots :
    req[r].kind = "delete" =>
      LET q == req[r]
          n == Len(q.probes)
      IN /\ q.filePath # <<>> =>
              /\ q.probes[n] /\ \A i \in 1..(n - 1) : ~q.probes[i]
              /\ q.filePath[1] = q.paths[n]
         /\ q.unlinked # <<>> => q.unlinked[1].path = q.filePath[1]
         /\ q.calls # <<>> => q.unlinked # <<>>
         /\ (q.pc = "done" /\ q.filePath # <<>> /\ q.unlinked = <<>>) =>
              (q.res.status = 500 /\ q.calls = <<>>)
         /\ (q.pc = "done" /\ q.unlinked # <<>>) => q.res.status = 200

\* A delete whose third candidate was the first to exist has been answered
\* success although the upstream delete call failed.
C7_Witness ==
  \E r \in Slots :
    /\ req[r].kind = "delete" /\ req[r].pc = "done"
    /\ Len(req[r].probes) = 3 /\ req[r].unlinked # <<>>
    /\ req[r].reply.type = "down"
    /\ req[r].res.status = 200

IngestFellBack(q) ==
  q.kind = "ingest" /\ q.pc = "done" /\ q.calls # <<>> /\ q.reply.type # "ok"

\* C8: when the upstream ingest call fails for a request with at least one
\* accepted file, the answer is success with an 'ingested' list of one entry
\* per accepted file, in request order, each with the original file name, the
\* local stored path and ingested_pages 'unknown'; the stored files stay in
\* the upload directory.
C8_FallbackReport ==
  \A r \in Slots :
    IngestFellBack(req[r]) =>
      LET q == req[r]
          ingested == q.res.body.ingested
      IN /\ q.res.status = 200
         /\ Len(q.input) >= 1
         /\ Len(ingested) = Len(q.input)
         /\ \A i \in 1..Len(q.input) :
              /\ ingested[i].file = q.input[i].originalname
              /\ ingested[i].path = q.files[i].path
              /\ InUploads(ingested[i].path)
              /\ ingested[i].ingested_pages = "unknown"
              /\ ingested[i].path \in DOMAIN fs

\* A request of two files has been answered from the local paths.
C8_Witness ==
  \E r \in Slots :
    /\ IngestFellBack(req[r])
    /\ req[r].input = <<PdfA, PdfB>>
    /\ req[r].res.status = 200

Acceptable(file) ==
  file.mimetype = "application/pdf" /\ file.size <= 50 * 1024 * 1024

\* C9: files are forwarded upstream only for a request of 1 to 10 files, all
\* PDF and at most 50 MB; a request without files is answered 400 'No files
\* uploaded' and a request with a non-PDF file, an oversize file or more
\* than 10 files is rejected, both without any upstream call.
C9_ForwardOnlyValid ==
  \A r \in Slots :
    req[r].kind = "ingest" =>
      LET q == req[r]
          valid == /\ Len(q.input) \in 1..10
                   /\ \A i \in 1..Len(q.input) : Acceptable(q.input[i])
      IN /\ q.calls # <<>> => valid
         /\ (q.pc = "done" /\ Len(q.input) = 0) =>
              /\ q.res = Response(400, [error |-> "No files uploaded"])
              /\ q.calls = <<>>
         /\ (q.pc = "done" /\ Len(q.input) > 0 /\ ~valid) =>
              /\ q.res.status >= 400
              /\ q.calls = <<>>

\* A request of eleven PDF files has been rejected with nothing forwarded.
C9_Witness ==
  \E r \in Slots :
    /\ req[r].kind = "ingest" /\ req[r].pc = "done"
    /\ Len(req[r].input) = 11
    /\ req[r].res.status = 500 /\ req[r].calls = <<>>

----------------------------------------------------------------------------
(* Claims about statelessness and delegation *)

PassChanged(r) == req'[r] # req[r] /\ req'[r].kind = "pass"

\* C11: a passthrough request whose required fields are present issues
\* exactly one upstream call, to the path its route mirrors; on success it
\* answers 200 with the upstream body as received, on failure with the
\* mapping of the failure alone; and no step of it changes the upload
\* directory, the clock or any other state of the server.
C11_PassIsStateless ==
  [][\A r \in Slots :
       (PassChanged(r) /\ ~OmitsRequired(req'[r])) =>
         /\ <<fs, py, now, nextId>>' = <<fs, py, now, nextId>>
         /\ Len(req'[r].calls) = 1
         /\ req'[r].calls[1].url = req'[r].ep
         /\ req'[r].pc = "done" =>
              req'[r].res = IF req'[r].reply.type = "ok"
                            THEN Response(200, req'[r].reply.data)
                            ELSE PassError(req'[r].reply)]_vars

\* A synthesis request with its query present was answered from upstream.
C11_Witness ==
  \E r \in Slots :
    /\ req[r].kind = "pass" /\ req[r].pc = "done" /\ req[r].ep = "/synthesis"
    /\ req[r].body.query = "text"
    /\ req[r].calls = <<[url |-> "/synthesis",
                         body |-> ForwardBody("/synthesis", req[r].body)]>>
    /\ req[r].res = Response(200, "upstream body")

\* C12: a listing whose upstream call succeeded answers 200 with the body
\* upstream sent and never reads the upload directory; the directory is
\* read only by a listing whose upstream call failed.
C12_UpstreamFirst ==
  \A r \in Slots :
    req[r].kind = "list" =>
      /\ (req[r].pc = "done" /\ req[r].reply.type = "ok") =>
            /\ req[r].res = Response(200, req[r].data[1])
            /\ ~req[r].scanned /\ req[r].dir = {} /\ req[r].files = {}
      /\ req[r].scanned => req[r].reply \in StoreFailures

\* A listing was served by upstream while the upload directory held a file
\* and upstream's listing was not empty.
C12_Witness ==
  \E r \in Slots :
    /\ req[r].kind = "list" /\ req[r].pc = "done" /\ req[r].reply.type = "ok"
    /\ req[r].res.body.files # {}
    /\ readdir # {}

----------------------------------------------------------------------------
(* Claims about the safety of the upload directory *)

\* C13 as stated: storing a received file never overwrites a stored file:
\* every file that is there before and after a step has kept its content
\* (the generated name differs from the name of every other stored file,
\* of the same request or of another).
C13_NeverOverwrites ==
  [][\A p \in DOMAIN fs \cap DOMAIN fs' : fs'[p] = fs[p]]_vars

\* C17 as stated: whatever filename is sent, a delete request unlinks at
\* most one file, and only a file directly inside the upload directory; the
\* files outside it stay.
C17_UnlinksOnlyUploads ==
  /\ ServerScript \in DOMAIN fs
  /\ \A r \in Slots :
       req[r].kind = "delete" =>
         /\ Len(req[r].unlinked) <= 1
         /\ \A i \in 1..Len(req[r].unlinked) : InUploads(req[r].unlinked[i].path)

\* C20 as stated: of two delete requests for the same stored file that were
\* handled concurrently and of which one removed the file, the other
\* answers 404 and removes nothing, and upstream is notified at most once.
C20_ConcurrentDelete ==
  \A r, s \in Slots :
    ( /\ r # s
      /\ req[r].kind = "delete" /\ req[r].pc = "done"
      /\ req[s].kind = "delete" /\ req[s].pc = "done"
      /\ req[r].param = req[s].param
      /\ req[r].unlinked # <<>>
      /\ InUploads(req[r].unlinked[1].path) ) =>
        /\ req[r].res.status = 200
        /\ req[s].res.status = 404
        /\ req[s].unlinked = <<>>
        /\ Len(req[r].calls) + Len(req[s].calls) <= 1

----------------------------------------------------------------------------
(* Claims about the frontend *)

\* C14: activeView is always one of library, qa, synthesis, related (library
\* at first), exactly one panel is rendered and it is the panel of that
\* view, and a step that switches the view leaves selectedFile and uploads
\* as they were.
C14_OneViewAtATime ==
  /\ app.activeView = "library"
  /\ [](/\ app.activeView \in Range(menuItems)
        /\ Len(view.panels) = 1
        /\ view.panels = renderActiveView(app.activeView))
  /\ [][app'.activeView # app.activeView =>
          /\ app'.selectedFile = app.selectedFile
          /\ app'.uploads = app.uploads]_vars

\* The view was switched to qa while a file was selected and listed.
C14_Witness ==
  /\ app.activeView = "qa" /\ last.op = "view"
  /\ view.panels = <<"DocumentQA">>
  /\ app.selectedFile = D1.path /\ app.uploads = <<D1, D2>>

\* C15 as stated: when the delete action or the upload action asks the
\* server for the fresh listing, the local list already has the optimistic
\* update: the deleted file is out of it, the files reported ingested are
\* in it.
C15_OptimisticThenRefresh ==
  [][/\ (ops.delete.pc = "delete" /\ ops'.delete.pc = "fetch") =>
          ops.delete.file[1] \notin Range(app'.uploads)
     /\ (ops.upload.pc = "post" /\ ops'.upload.pc = "fetch") =>
          Range(ops'.upload.ingested) \subseteq Range(app'.uploads)]_vars

\* The component that owns an operation of the frontend.
Owner(op) ==
  CASE op \in {"listing", "upload"} -> "App"
    [] op = "delete" -> "LibraryView"
    [] op \in Requests -> PanelOf(op)
    [] OTHER -> "App"

\* C16 as stated: when a data operation of the frontend (listing refresh,
\* upload, delete, question, synthesis, related papers, search) has just
\* failed, the component that owns it shows an error banner.
C16_FailureShowsBanner ==
  last.type = "failed" => Banner(Owner(last.op)) # NULL

\* C18 as stated: in the step in which handleFileDelete runs for a file,
\* the selection does not stay on that file, whatever cards were selected
\* while the DELETE was awaited.
C18_DeleteClearsSelection ==
  [][(ops.delete.pc = "delete" /\ ops'.delete.pc = "fetch") =>
        app'.selectedFile # ops.delete.file[1].path]_vars

\* C19 as stated: once no listing request is outstanding, uploads is the
\* list of files the most recently issued listing request was answered
\* with; the answer to an older request has not replaced it.
C19_LatestListingWins ==
  (Fetching = {} /\ last.listing # <<>>) =>
    (last.listing[1].type = "files" => app.uploads = last.listing[1].files)

\* The result state a request of a view fills: results for a search,
\* the answer / result / relatedPapers otherwise.
ResultFor(kind, state) == IF kind = "search" THEN state.results ELSE state.result

Starts(s)   == ops.comp[s].pc = "idle" /\ ops'.comp[s].pc = "fetch"
Finishes(s) == ops.comp[s].pc = "fetch" /\ ops'.comp[s].pc = "idle"

\* C21 as stated: starting a request sets loading and clears the previous
\* error and the previous result of the component; when the request of a
\* mounted component finishes, loading is false and its error and result
\* are not both set; while loading no submit control is enabled, so a
\* component awaits at most one request; App's loading is true exactly
\* while its upload is awaited.
C21_LoadingDiscipline ==
  /\ [](/\ app.loading <=> ops.upload.pc # "idle"
        /\ view.loading => \A kind \in Requests : ~CanSubmit(kind)
        /\ Cardinality({s \in Awaits : ops.comp[s].pc = "fetch"
                                         /\ ops.comp[s].mounted}) <= 1)
  /\ [][\A s \in Awaits :
          /\ Starts(s) =>
               /\ view'.loading
               /\ view'.error = NULL
               /\ ResultFor(ops'.comp[s].kind, view') = NULL
          /\ (Finishes(s) /\ ops.comp[s].mounted) =>
               /\ ~view'.loading
               /\ ~(view'.error # NULL
                      /\ ResultFor(ops.comp[s].kind, view') # NULL)]_vars

====
